---- MODULE Spec2Model ----
(***************************************************************************)
(* State-machine model of HomeScreen (the pull-request list screen) and of *)
(* its configuration.  Strings that the code trims or compares (logins,    *)
(* the text of the input field) are sequences of one-character strings;    *)
(* the error message is the sequence of the fragments of its template.     *)
(* React state setters are applied at the end of the handler or of the     *)
(* continuation that calls them, and the effects that depend on the        *)
(* changed state run with them.                                            *)
(***************************************************************************)
EXTENDS Integers, Sequences, FiniteSets, TLC

VARIABLES prs, allPrs, loading, error, excludedAuthors, newAuthor,
          showSettings, calls, fetchCount

vars == <<prs, allPrs, loading, error, excludedAuthors, newAuthor,
          showSettings, calls, fetchCount>>

(* ------------------------------ bounds -------------------------------- *)

\* Invocations of fetchPullRequests in one run (the mount plus the retries).
MaxFetches == 2

\* Records per page: config.perPage (100), scaled down.
perPage == 2

(* --------------------------- configuration ---------------------------- *)

\* config.maxPages
maxPages == 5

Kudo == <<"K", "u", "d", "o">>
kudo == <<"k", "u", "d", "o">>
alice == <<"a", "l", "i", "c", "e">>

\* config.excludedAuthors, abbreviated to one of its entries.
config_excludedAuthors == <<Kudo>>

(* ------------------------------ inputs -------------------------------- *)

\* Texts the user types into the "GitHub username" field.
TypedTexts ==
    { <<>>,
      <<" ", "\t">>,
      alice,
      <<" ", " ">> \o alice \o <<" ", " ">>,
      kudo,
      Kudo \o <<" ">> }

\* Arguments of removeExcludedAuthor.
RemoveArgs == {Kudo, kudo, alice}

\* Logins of the authors of the open pull requests, by position in the
\* endpoint's listing (position n is written by PrAuthors[((n - 1) % 3) + 1]).
PrAuthors == <<alice, kudo, Kudo>>
AuthorOf(n) == PrAuthors[((n - 1) % Len(PrAuthors)) + 1]

\* Non-success statuses of the endpoint, with their reason phrases.
FailStatuses == {403, 500}
statusText(status) == IF status = 403 THEN "Forbidden"
                      ELSE IF status = 500 THEN "Internal Server Error"
                      ELSE "OK"

\* Values fetch() or response.json() reject with: [isError, message].
Rejections ==
    { [isError |-> TRUE, message |-> <<"Network request failed">>],
      [isError |-> FALSE, message |-> <<"timeout">>] }

\* The body of an ok response for page `page`: the next n records of the
\* listing, n <= perPage (n = 0: the listing has ended).
PageOf(page, n) ==
    [i \in 1..n |->
        [id |-> (page - 1) * perPage + i,
         login |-> AuthorOf((page - 1) * perPage + i)]]

PageSizes == 0..perPage

(* --------------------------- pure functions --------------------------- *)

null == <<>>

IsWhitespace(c) == c \in {" ", "\t", "\n", "\r"}

RECURSIVE TrimStart(_)
TrimStart(s) ==
    IF s # <<>> /\ IsWhitespace(Head(s)) THEN TrimStart(Tail(s)) ELSE s

RECURSIVE TrimEnd(_)
TrimEnd(s) ==
    IF s # <<>> /\ IsWhitespace(s[Len(s)])
    THEN TrimEnd(SubSeq(s, 1, Len(s) - 1)) ELSE s

\* String.prototype.trim
NoTrim(s) == s
Trim(s) == TrimEnd(TrimStart(s))

\* Array.prototype.includes
includes(list, x) == \E i \in 1..Len(list) : list[i] = x

\* filterPRs: the value it passes to setPrs (Array.prototype.filter is SelectSeq).
filterPRsKeepAll(all, excluded) == all
filterPRs(all, excluded) ==
    LET Keep(pr) == ~includes(excluded, pr.login) IN SelectSeq(all, Keep)

\* addExcludedAuthor: the new values of <<excludedAuthors, newAuthor>>.
addExcludedAuthor(excluded, text) ==
    LET trimmedAuthor == Trim(text)
    IN  IF trimmedAuthor # <<>> /\ ~includes(excluded, trimmedAuthor)
        THEN <<Append(excluded, trimmedAuthor), <<>>>>
        ELSE <<excluded, text>>

\* removeExcludedAuthor: the value it passes to setExcludedAuthors.
removeExcludedAuthorFirst(excluded, author) ==
    IF excluded = <<>> THEN excluded ELSE Tail(excluded)
removeExcludedAuthor(excluded, author) ==
    LET Keep(a) == a # author IN SelectSeq(excluded, Keep)

\* The message of the Error thrown for a response that is not ok.
ErrorMessageNoStatus(status) == <<"GitHub API error: ", statusText(status)>>
ErrorMessage(status) ==
    <<"GitHub API error: ", ToString(status), " ", statusText(status)>>

\* The catch clause: the value it passes to setError.
CaughtMessage(err) ==
    IF err.isError THEN err.message ELSE <<"An error occurred">>

(* ------------------------------- views -------------------------------- *)

LoadingView == loading
ErrorView == ~loading /\ error # null
MainView == ~loading /\ error = null

\* The Retry button is rendered (in the error view only).
RetryAvailableWheneverLoaded == ~loading
RetryAvailable == ErrorView

(* -------------------------------- Init -------------------------------- *)

Init ==
    /\ prs = <<>>
    /\ allPrs = <<>>
    /\ loading = TRUE
    /\ error = null
    /\ excludedAuthors = config_excludedAuthors
    /\ newAuthor = <<>>
    /\ showSettings = FALSE
    /\ calls = <<>>
    /\ fetchCount = 0

(* -------------------------- fetchPullRequests ------------------------- *)

\* The loop condition of the page loop.
LoopContinuesOnePast(page) == page <= maxPages + 1
LoopContinues(page) == page <= maxPages

\* The test that ends the pagination on a page without records.
IsLastPageNever(data) == FALSE
IsLastPage(data) == Len(data) = 0

\* The argument of the setAllPrs call made after each page.
PageUpdateNone(fetchedPrs, current) == current
PageUpdate(fetchedPrs, current) == fetchedPrs

\* The argument of the setLoading call made after each page.
LoadingAfterPageKept(current) == current
LoadingAfterPage(current) == FALSE

\* The activation record of an invocation that has reached the first await,
\* or has run to its end when the loop body is never entered.
NewCall ==
    IF LoopContinues(1)
    THEN [pc |-> "await_fetch", page |-> 1, fetchedPrs |-> <<>>,
          requests |-> <<1>>, responses |-> <<>>]
    ELSE [pc |-> "done", page |-> 1, fetchedPrs |-> <<>>,
          requests |-> <<>>, responses |-> <<>>]

\* The invocations that have not returned.
Running(cs) == LET Active(c) == c.pc # "done" IN SelectSeq(cs, Active)

\* fetchPullRequests up to its first await.  calls holds the invocations that
\* have not returned and those that returned since the last one started.
FetchStart ==
    /\ calls' = Append(Running(calls), NewCall)
    /\ fetchCount' = fetchCount + 1
    /\ error' = null
    /\ loading' = (NewCall.pc # "done")
    /\ allPrs' = IF NewCall.pc = "done" THEN <<>> ELSE allPrs
    /\ prs' = filterPRs(allPrs', excludedAuthors)

\* useEffect(() => { fetchPullRequests(); }, [])
Mount ==
    /\ fetchCount = 0
    /\ FetchStart
    /\ UNCHANGED <<excludedAuthors, newAuthor, showSettings>>

\* The Retry button of the error view.
Retry ==
    /\ fetchCount > 0
    /\ RetryAvailable
    /\ fetchCount < MaxFetches
    /\ FetchStart
    /\ UNCHANGED <<excludedAuthors, newAuthor, showSettings>>

\* The catch and finally clauses, entered from the await of call i with the
\* message msg; what is logged as the outcome of the request.
Fail(i, msg, outcome) ==
    /\ calls' = [calls EXCEPT ![i].pc = "done",
                              ![i].responses = Append(@, outcome)]
    /\ error' = msg
    /\ loading' = FALSE
    /\ UNCHANGED <<prs, allPrs, excludedAuthors, newAuthor, showSettings,
                   fetchCount>>

\* fetch() resolves with a response that is ok: on to response.json().
FetchResolvesOk(i) ==
    /\ calls[i].pc = "await_fetch"
    /\ calls' = [calls EXCEPT ![i].pc = "await_json"]
    /\ UNCHANGED <<prs, allPrs, loading, error, excludedAuthors, newAuthor,
                   showSettings, fetchCount>>

\* fetch() resolves with a response that is not ok: the Error is thrown.
FetchResolvesNotOk(i, status) ==
    /\ calls[i].pc = "await_fetch"
    /\ Fail(i, ErrorMessage(status),
            [kind |-> "status", status |-> status, data |-> <<>>])

\* fetch() rejects.
FetchRejects(i, err) ==
    /\ calls[i].pc = "await_fetch"
    /\ Fail(i, CaughtMessage(err),
            [kind |-> "rejected", status |-> 0, data |-> <<>>])

\* response.json() rejects.
JsonRejects(i, err) ==
    /\ calls[i].pc = "await_json"
    /\ Fail(i, CaughtMessage(err),
            [kind |-> "malformed", status |-> 200, data |-> <<>>])

\* response.json() resolves with data: the rest of the loop body, the loop
\* test, and either the next request or the end of the function.
JsonResolves(i, data) ==
    LET c == calls[i]
        outcome == [kind |-> "ok", status |-> 200, data |-> data]
        fetched == c.fetchedPrs \o data
    IN  /\ c.pc = "await_json"
        /\ IF IsLastPage(data)
           THEN /\ calls' = [calls EXCEPT ![i].pc = "done",
                                          ![i].responses = Append(@, outcome)]
                /\ allPrs' = c.fetchedPrs
                /\ loading' = FALSE
           ELSE IF LoopContinues(c.page + 1)
           THEN /\ calls' = [calls EXCEPT
                               ![i].pc = "await_fetch",
                               ![i].page = c.page + 1,
                               ![i].fetchedPrs = fetched,
                               ![i].requests = Append(@, c.page + 1),
                               ![i].responses = Append(@, outcome)]
                /\ allPrs' = PageUpdate(fetched, allPrs)
                /\ loading' = LoadingAfterPage(loading)
           ELSE /\ calls' = [calls EXCEPT
                               ![i].pc = "done",
                               ![i].page = c.page + 1,
                               ![i].fetchedPrs = fetched,
                               ![i].responses = Append(@, outcome)]
                /\ allPrs' = fetched
                /\ loading' = FALSE
        /\ prs' = filterPRs(allPrs', excludedAuthors)
        /\ UNCHANGED <<error, excludedAuthors, newAuthor, showSettings,
                       fetchCount>>

(* ------------------------------ settings ------------------------------ *)

\* The settings button of the main view.
ToggleSettings ==
    /\ MainView
    /\ showSettings' = ~showSettings
    /\ UNCHANGED <<prs, allPrs, loading, error, excludedAuthors, newAuthor,
                   fetchCount, calls>>

SettingsPanel == MainView /\ showSettings

\* onChangeText={setNewAuthor}
ChangeText(text) ==
    /\ SettingsPanel
    /\ newAuthor' = text
    /\ UNCHANGED <<prs, allPrs, loading, error, excludedAuthors,
                   showSettings, fetchCount, calls>>

\* The + button and onSubmitEditing, with the filter effect that follows.
AddExcludedAuthor ==
    /\ SettingsPanel
    /\ excludedAuthors' = addExcludedAuthor(excludedAuthors, newAuthor)[1]
    /\ newAuthor' = addExcludedAuthor(excludedAuthors, newAuthor)[2]
    /\ prs' = filterPRs(allPrs, excludedAuthors')
    /\ UNCHANGED <<allPrs, loading, error, showSettings, fetchCount, calls>>

\* The x button of a chip, with the filter effect that follows.
RemoveExcludedAuthor(author) ==
    /\ SettingsPanel
    /\ excludedAuthors' = removeExcludedAuthor(excludedAuthors, author)
    /\ prs' = filterPRs(allPrs, excludedAuthors')
    /\ UNCHANGED <<allPrs, loading, error, newAuthor, showSettings, fetchCount,
                   calls>>

(* ---------------------------- specification --------------------------- *)

Next ==
    \/ Mount
    \/ Retry
    \/ \E i \in 1..Len(calls) : FetchResolvesOk(i)
    \/ \E i \in 1..Len(calls), status \in FailStatuses :
          FetchResolvesNotOk(i, status)
    \/ \E i \in 1..Len(calls), err \in Rejections : FetchRejects(i, err)
    \/ \E i \in 1..Len(calls), err \in Rejections : JsonRejects(i, err)
    \/ \E i \in 1..Len(calls), n \in PageSizes :
          JsonResolves(i, PageOf(calls[i].page, n))
    \/ ToggleSettings
    \/ \E text \in TypedTexts : ChangeText(text)
    \/ AddExcludedAuthor
    \/ \E author \in RemoveArgs : RemoveExcludedAuthor(author)

Spec == Init /\ [][Next]_vars

(* ------------------------- notions of the claims ---------------------- *)

Range(seq) == {seq[i] : i \in 1..Len(seq)}

RECURSIVE Concat(_)
Concat(seqs) == IF seqs = <<>> THEN <<>> ELSE Head(seqs) \o Concat(Tail(seqs))

\* The records the endpoint has returned to the invocation c, in page order.
Received(c) == Concat([k \in 1..Len(c.responses) |-> c.responses[k].data])

\* The records of the first n pages returned to c.
ReceivedUpTo(c, n) == Concat([k \in 1..n |-> c.responses[k].data])

IsRunning(c) == c.pc # "done"
RunningCalls == {i \in 1..Len(calls) : IsRunning(calls[i])}

\* <<1, 2, ..., n>>
UpTo(n) == [k \in 1..n |-> k]

\* sub is the order-preserving subsequence of all made of the records whose
\* author is not among excluded: its k-th record is the k-th such record.
IsFilteredView(sub, all, excluded) ==
    LET kept == {i \in 1..Len(all) : all[i].login \notin Range(excluded)}
    IN  /\ Len(sub) = Cardinality(kept)
        /\ \A i \in kept : sub[Cardinality({j \in kept : j <= i})] = all[i]

Blank(c) == c \in {" ", "\t"}

\* The number of blanks text begins with, and the number it ends with.
LeadingBlanks(text) ==
    CHOOSE n \in 0..Len(text) :
        /\ \A k \in 1..n : Blank(text[k])
        /\ n < Len(text) => ~Blank(text[n + 1])
TrailingBlanks(text) ==
    CHOOSE n \in 0..Len(text) :
        /\ \A k \in (Len(text) - n + 1)..Len(text) : Blank(text[k])
        /\ n < Len(text) => ~Blank(text[Len(text) - n])

\* text without its leading and trailing blanks.
Trimmed(text) ==
    IF LeadingBlanks(text) = Len(text) THEN <<>>
    ELSE SubSeq(text, LeadingBlanks(text) + 1, Len(text) - TrailingBlanks(text))

NoDuplicates(seq) ==
    \A i, j \in 1..Len(seq) : seq[i] = seq[j] => i = j

\* C1: in every reachable state prs is exactly the order-preserving
\* subsequence of allPrs made of the records whose author login is not in
\* excludedAuthors, whatever pages have arrived and whatever was added or
\* removed.
C1_FilteredView == IsFilteredView(prs, allPrs, excludedAuthors)

\* C1 witness: a fetch is still running, the excluded set has been edited,
\* and the filter hides some records and keeps others.
C1_Witness ==
    /\ RunningCalls # {}
    /\ excludedAuthors # config_excludedAuthors
    /\ alice \in Range(excludedAuthors)
    /\ 0 < Len(prs)
    /\ Len(prs) < Len(allPrs)
    /\ Len(allPrs) >= 3

\* C2: if the request for page k gets a non-success status, the fetch has
\* ended there: the error carries the status code, loading is false, page k
\* is the last page requested and nothing is requested afterwards.
C2_StatusAborts ==
    \A i \in 1..Len(calls) :
        \A k \in 1..Len(calls[i].responses) :
            calls[i].responses[k].kind = "status" =>
                /\ calls[i].pc = "done"
                /\ k = Len(calls[i].responses)
                /\ calls[i].requests = UpTo(k)
                /\ k <= maxPages
                /\ loading = FALSE
                /\ ToString(calls[i].responses[k].status) \in Range(error)

\* C2 witness: status 403 on page 2.
C2_Witness ==
    \E i \in 1..Len(calls) :
        /\ Len(calls[i].responses) = 2
        /\ calls[i].responses[2].kind = "status"
        /\ calls[i].responses[2].status = 403
        /\ error # null

\* C3: if page k is the first page returned empty, the fetch has ended
\* there without an error: pages 1..k were requested and no other, error is
\* null, loading is false, and allPrs is the concatenation in page order of
\* the records of pages 1..k-1.
C3_EmptyPageStops ==
    \A i \in 1..Len(calls) :
        \A k \in 1..Len(calls[i].responses) :
            (calls[i].responses[k].kind = "ok"
               /\ calls[i].responses[k].data = <<>>) =>
                /\ calls[i].pc = "done"
                /\ k = Len(calls[i].responses)
                /\ calls[i].requests = UpTo(k)
                /\ error = null
                /\ loading = FALSE
                /\ allPrs = ReceivedUpTo(calls[i], k - 1)

\* C3 witness: two full pages and then an empty one: three requests and
\* 2 * perPage records.
C3_Witness ==
    \E i \in 1..Len(calls) :
        /\ Len(calls[i].responses) = 3
        /\ calls[i].responses[3].kind = "ok"
        /\ calls[i].responses[3].data = <<>>
        /\ Len(calls[i].requests) = 3
        /\ Len(allPrs) = 2 * perPage

\* C4: an invocation requests pages 1, 2, 3, ... in increasing order, each
\* only after the one before has resolved, and never more than maxPages; when
\* no page is empty and none fails it has requested exactly maxPages pages
\* when it ends, and allPrs holds all their records (maxPages * perPage
\* records when the pages are full).
C4_SequentialCappedPages ==
    \A i \in 1..Len(calls) :
        LET c == calls[i]
            n == Len(c.requests)
            allOk == \A k \in 1..Len(c.responses) :
                        c.responses[k].kind = "ok" /\ c.responses[k].data # <<>>
            allFull == \A k \in 1..Len(c.responses) :
                          Len(c.responses[k].data) = perPage
        IN  /\ c.requests = UpTo(n)
            /\ n <= maxPages
            /\ IF IsRunning(c) THEN Len(c.responses) = n - 1
                               ELSE Len(c.responses) = n
            /\ (~IsRunning(c) /\ allOk) =>
                   /\ n = maxPages
                   /\ allPrs = Received(c)
                   /\ allFull => Len(allPrs) = maxPages * perPage

\* C4 witness: an invocation that ended at the cap with full pages.
C4_Witness ==
    \E i \in 1..Len(calls) :
        /\ calls[i].pc = "done"
        /\ Len(calls[i].responses) = maxPages
        /\ \A k \in 1..maxPages : Len(calls[i].responses[k].data) = perPage
        /\ Len(allPrs) = maxPages * perPage

\* C5: while a fetch runs, once page i has resolved with records, allPrs is
\* the concatenation in page order of the records of pages 1..i, before
\* page i+1 resolves; and when a later page fails these records stay in
\* allPrs.
C5_IncrementalVisibility ==
    \A i \in 1..Len(calls) :
        LET c == calls[i]
            m == Len(c.responses)
        IN  /\ (IsRunning(c) /\ m >= 1) => allPrs = ReceivedUpTo(c, m)
            /\ (~IsRunning(c) /\ m >= 2
                  /\ c.responses[m].kind \in {"status", "rejected", "malformed"})
               => allPrs = ReceivedUpTo(c, m - 1)

\* C5 witness: page 1 has resolved with records and page 2 has not resolved.
C5_Witness ==
    \E i \in 1..Len(calls) :
        /\ calls[i].pc = "await_fetch"
        /\ calls[i].page = 2
        /\ Len(calls[i].responses) = 1
        /\ allPrs = calls[i].responses[1].data
        /\ allPrs # <<>>

\* What add makes of the set, given the text without its surrounding blanks.
AddedTo(excluded, t) ==
    IF t = <<>> \/ t \in Range(excluded) THEN excluded ELSE excluded \o <<t>>

\* For every text that can be typed, add leaves the set unchanged when the
\* trimmed text is empty or already an entry and otherwise appends the
\* trimmed text; so texts with the same trimmed value have the same effect.
TrimmedTexts == [text \in TypedTexts |-> Trimmed(text)]
AddEffect ==
    \A text \in TypedTexts :
        addExcludedAuthor(excludedAuthors, text)[1]
          = AddedTo(excludedAuthors, TrimmedTexts[text])

\* An add step changes the set as said, to a set without duplicates.
AddStepEffect ==
    AddExcludedAuthor =>
        /\ excludedAuthors' = AddedTo(excludedAuthors, Trimmed(newAuthor))
        /\ NoDuplicates(excludedAuthors')

\* C6: add trims the text; an empty or already present trimmed value leaves
\* the set unchanged, any other is appended at the end; texts that differ
\* only in surrounding whitespace have the same effect; the set never holds
\* a duplicate.
C6_AddTrimsAndDeduplicates ==
    [][NoDuplicates(excludedAuthors) /\ AddEffect /\ AddStepEffect]_vars

\* C6 witness: alice has been appended after the default entry, in its
\* trimmed form, and the field still holds the text "  alice  " typed again.
C6_Witness ==
    /\ excludedAuthors = <<Kudo, alice>>
    /\ newAuthor = <<" ", " ">> \o alice \o <<" ", " ">>

\* Removing an absent login changes nothing.
RemoveAbsentIsNoOp ==
    \A a \in RemoveArgs :
        a \notin Range(excludedAuthors) =>
            removeExcludedAuthor(excludedAuthors, a) = excludedAuthors

\* A remove step takes out the entry equal to the login and keeps the others
\* in order, and it never changes allPrs.
RemoveStepEffect ==
    \A a \in RemoveArgs :
        RemoveExcludedAuthor(a) =>
            /\ allPrs' = allPrs
            /\ IF a \in Range(excludedAuthors)
               THEN \E i \in 1..Len(excludedAuthors) :
                       /\ excludedAuthors[i] = a
                       /\ excludedAuthors' =
                            SubSeq(excludedAuthors, 1, i - 1)
                              \o SubSeq(excludedAuthors, i + 1,
                                        Len(excludedAuthors))
               ELSE excludedAuthors' = excludedAuthors

\* C7: remove takes out the entry exactly equal to the login when present,
\* keeping the other entries in their order, leaves the set unchanged when
\* it is absent, and never changes allPrs.
C7_RemoveExactEntry ==
    [][RemoveAbsentIsNoOp /\ RemoveStepEffect]_vars

\* C7 witness: the default entry has been removed from between or before
\* entries that were added, which keep their order.
C7_Witness ==
    /\ excludedAuthors = <<kudo, alice>>
    /\ allPrs # <<>>

\* C8: once a retry has run to its end, whatever its outcome, allPrs holds
\* only the records returned to that retry.
C8_RetryReplacesData ==
    (fetchCount >= 2 /\ calls # <<>> /\ ~IsRunning(calls[Len(calls)]))
        => allPrs = Received(calls[Len(calls)])

\* C9 as claimed: loading is true in every state in which a fetch has
\* started and not finished.
C9_LoadingWhileFetching == RunningCalls # {} => loading = TRUE

\* C9 amended: while a fetch runs, loading is true until its first page has
\* resolved with records and false afterwards, and error is null; once the
\* fetch has finished loading is false, and error is non-null exactly when
\* the fetch failed.
C9_LoadingUntilFirstPage ==
    /\ \A i \in RunningCalls :
          /\ loading = (Len(calls[i].responses) = 0)
          /\ error = null
    /\ (fetchCount > 0 /\ RunningCalls = {}) =>
          /\ loading = FALSE
          /\ LET c == calls[Len(calls)]
                 m == Len(c.responses)
             IN  error # null <=>
                   (m >= 1 /\ c.responses[m].kind
                                \in {"status", "rejected", "malformed"})

\* C9 witness: page 1 has resolved with records, page 2 is outstanding and
\* the main view is shown.
C9_Witness ==
    \E i \in RunningCalls :
        /\ Len(calls[i].responses) >= 1
        /\ loading = FALSE
        /\ allPrs # <<>>

\* C10: at most one invocation of fetchPullRequests is in flight, and the
\* Retry button is rendered only when none is.
C10_SingleFetchInFlight ==
    /\ Cardinality(RunningCalls) <= 1
    /\ RetryAvailable => RunningCalls = {}

\* C10 witness: a retry is in flight after the first fetch has ended, and
\* allPrs still holds what the first fetch published.
C10_Witness ==
    /\ fetchCount = 2
    /\ Cardinality(RunningCalls) = 1
    /\ allPrs # <<>>

====
